---- MODULE Spec2Model ----
(***************************************************************************)
(* The conjecture-prove bootstrapping loop of learning/bootstrap.py:       *)
(* teacher_loop, prove_conjectures, get_val_loss and get_log_probs, with   *)
(* the run directory they write and the worker pool they dispatch to.      *)
(*                                                                         *)
(* The agent is opaque in the source (make_agent, agent.train, torch.save, *)
(* torch.load).  Here an agent value is the sequence of iteration indices  *)
(* it has been trained on: make_agent gives << >>, agent.train in          *)
(* iteration i appends i.  Example strings are 4-tuples                    *)
(* <<kind, label, problem, n>>; rationals are pairs <<num, den>>.          *)
(***************************************************************************)
EXTENDS Integers, Sequences, FiniteSets, TLC

\* ------------------------------------------------------------- bounds
MaxGoals == 2
MaxIterations == 2
MaxRestarts == 1
MaxNodes == 10

\* ------------------------------------------------------------ helpers
Last(s) == s[Len(s)]

RECURSIVE Concat(_)
Concat(ss) == IF ss = << >> THEN << >> ELSE Head(ss) \o Concat(Tail(ss))

RECURSIVE SumSeq(_)
SumSeq(s) == IF s = << >> THEN 0 ELSE Head(s) + SumSeq(Tail(s))

\* a / b and c / d denote the same number (b, d > 0)
RatEq(x, y) == x[1] * y[2] = y[1] * x[2]

\* np.mean(xs) if xs else 0
\* faulty variant: the sum is not divided by the number of log-probs
SumOrZero(xs) == <<SumSeq(xs), 1>>

MeanOrZero(xs) == IF xs = << >> THEN <<0, 1>> ELSE <<SumSeq(xs), Len(xs)>>

\* sorted(...) of a sequence of integers, ascending (insertion sort)
RECURSIVE InsertSorted(_, _)
InsertSorted(x, s) ==
    IF s = << >> THEN <<x>>
    ELSE IF x <= Head(s) THEN <<x>> \o s
    ELSE <<Head(s)>> \o InsertSorted(x, Tail(s))

RECURSIVE SortAsc(_)
SortAsc(s) == IF s = << >> THEN << >> ELSE InsertSorted(Head(s), SortAsc(Tail(s)))

\* ---------------------------------------------------------- constants
FAIL == "fail"

\* an optional value: a missing file, an unbound local, a nan
None == << >>
Some(x) == <<x>>
NoFile == None
Unbound == None
NaN == None

\* the goal file: up to MaxGoals formatted final goals
GoalNames == [j \in 1..MaxGoals |-> <<"goal", j>>]

GoalLists == {SubSeq(GoalNames, 1, n) : n \in 0..MaxGoals}

\* HindsightExample(goal, examples, logprob) found by the job for `problem`
\* at position n of its hindsight list
HindsightExample(goal, problem, n, logprob) ==
    [goal |-> goal, examples |-> <<<<"hs", goal, problem, n>>>>, logprob |-> logprob]

HindsightLists(problem) ==
    { << >>,
      <<HindsightExample("g1", problem, 1, -1), HindsightExample("g1", problem, 2, -2)>>,
      <<HindsightExample("g2", problem, 1, -2), HindsightExample("g1", problem, 2, -4)>> }

\* StudentResult; the proof field is opaque and only ever appended to a list
\* that is never read, so it is left out.
StudentResult(problem, error, success, logprob, extracted, hindsight, iterations) ==
    [problem |-> problem, error |-> error, success |-> success, logprob |-> logprob,
     extracted_examples |-> extracted, hindsight_examples |-> hindsight,
     iterations |-> iterations]

ErrorResult(problem) == StudentResult(problem, TRUE, FALSE, 0, << >>, << >>, 0)

\* What a worker may report for one search job (worker.try_prove is external).
\* A plain search of the round's dispatch: an error, a failure or a proof.
PlainResults(problem) ==
    {ErrorResult(problem)} \cup
    {StudentResult(problem, FALSE, s, IF s THEN -1 ELSE 0, << >>, << >>, MaxNodes) :
        s \in BOOLEAN}

\* A search that also yields extracted and hindsight examples.
RichResults(problem) ==
    {ErrorResult(problem)} \cup
    {StudentResult(problem, FALSE, lp # 0, lp, ex, hs, MaxNodes) :
        lp \in {0, -1, -3},
        ex \in {<< >>, <<<<"ext", "", problem, 1>>>>},
        hs \in HindsightLists(problem)}

\* A validation search: an error, or a failure or proof within or beyond the
\* node budget.
EvalResults(problem) ==
    {ErrorResult(problem)} \cup
    {StudentResult(problem, FALSE, s, IF s THEN lp ELSE 0, << >>, << >>, n) :
        s \in BOOLEAN, lp \in {-1}, n \in {MaxNodes, MaxNodes + 1}}

\* A validation search that always proves the goal within the node budget.
SolvedResults(problem) ==
    {StudentResult(problem, FALSE, TRUE, -1, << >>, << >>, MaxNodes)}

VARIABLES
    cfg,                    \* the configuration (DictConfig) of the process
    DISTRIBUTED,            \* os.environ DISTRIBUTED
    final_goals_formatted,  \* the goals loaded from the goal file
    outcomes,               \* which outcomes the worker layer may report: [main, eval]
    disk,                   \* the run directory
    restarts,               \* processes started after the first one
    pc,                     \* position of the controller process
    reason,                 \* why it stopped
    agent,
    model_info,
    start_iteration,
    i,                      \* the loop index of teacher_loop
    started,                \* iterations this process has begun, in order
    is_eval,                \* prove_conjectures: the call's is_eval argument
    agent_dump,             \* prove_conjectures: the serialized agent
    tasks,                  \* prove_conjectures: the submitted tasks
    results,                \* prove_conjectures: its local student_results
    student_results,        \* teacher_loop: what the round's dispatch returned
    student_result,         \* teacher_loop: the loop variable of the classification loop
    round,                  \* teacher_loop: the other locals of the loop body
    mle_log,                \* keys of the mle_log.update calls of this process
    log_buffer              \* records written to log.jsonl and not yet flushed

vars == <<cfg, DISTRIBUTED, final_goals_formatted, outcomes, disk, restarts, pc, reason,
          agent, model_info, start_iteration, i, started, is_eval, agent_dump, tasks,
          results, student_results, student_result, round, mle_log, log_buffer>>

\* ------------------------------------------------- the run's inputs
final_goals == [j \in DOMAIN final_goals_formatted |-> <<"Conj:(hard)", final_goals_formatted[j]>>]

\* sorted(..., key=lambda kv: kv[1]): the buckets' percentiles, ascending
difficulty_buckets == SortAsc(cfg.difficulty_buckets)

\* never assigned again after line 76
student_results_final == << >>

\* faulty variant: the ablation flag is not honoured
FrozenIgnored == FALSE

\* `cfg.get('freeze_conjecturer', False)`, lines 148 and 165
frozen == cfg.freeze_conjecturer

\* ------------------------------------------------- pure functions
RECURSIVE get_log_probs(_)
get_log_probs(rs) ==
    IF rs = << >> THEN << >>
    ELSE (IF Head(rs).success THEN <<Head(rs).logprob>> ELSE << >>)
         \o get_log_probs(Tail(rs))

\* f'Conj:({outcome}) ' + d.elaborate(problem)
ConjExample(outcome, problem) == <<"conj", outcome, problem, 0>>

OutcomeOf(r) == IF r.success THEN "hard" ELSE FAIL

\* the examples the classification loop appends for one result
ClassifyOne(r) ==
    (IF ~frozen THEN <<ConjExample(OutcomeOf(r), r.problem)>> ELSE << >>)
    \o r.extracted_examples

\* faulty variant: the labels of all results come first, the extracted examples after
ClassifyExamplesLabelsFirst(rs) ==
    Concat([j \in DOMAIN rs |->
              IF ~frozen THEN <<ConjExample(OutcomeOf(rs[j]), rs[j].problem)>> ELSE << >>])
    \o Concat([j \in DOMAIN rs |-> rs[j].extracted_examples])

\* lines 141-156: per result, its labeled conjecture and then its extracted examples
RECURSIVE ClassifyExamples(_)
ClassifyExamples(rs) ==
    IF rs = << >> THEN << >> ELSE ClassifyOne(Head(rs)) \o ClassifyExamples(Tail(rs))

RECURSIVE ProvenProblems(_)
ProvenProblems(rs) ==
    IF rs = << >> THEN << >>
    ELSE (IF Head(rs).success THEN <<Head(rs).problem>> ELSE << >>)
         \o ProvenProblems(Tail(rs))

\* the hindsight loop over hs, with `sr` the result whose problem labels the
\* conjecture example; acc = [seen, examples, logprobs]
RECURSIVE HindsightLoop(_, _, _)
HindsightLoop(hs, sr, acc) ==
    IF hs = << >> THEN acc
    ELSE LET h == Head(hs) IN
         IF h.goal \notin acc.seen
         THEN HindsightLoop(Tail(hs), sr,
                [seen |-> acc.seen \cup {h.goal},
                 examples |-> acc.examples
                              \o (IF ~frozen THEN <<ConjExample("hard", sr.problem)>>
                                  ELSE << >>)
                              \o h.examples,
                 logprobs |-> Append(acc.logprobs, h.logprob)])
         ELSE HindsightLoop(Tail(hs), sr, acc)

\* the hindsight examples the loop iterates: those of student_result, the
\* variable the classification loop last bound
HindsightSource(sr) == sr.hindsight_examples

\* 100 * np.percentile(xs, p), xs not empty (linear interpolation between
\* the closest ranks)
Percentile100(xs, p) ==
    LET s == SortAsc(xs)
        r == p * (Len(s) - 1)
        lo == r \div 100
        fr == r % 100
    IN s[lo + 1] * 100 + (IF fr = 0 THEN 0 ELSE fr * (s[lo + 2] - s[lo + 1]))

\* [logprob for logprob in hindsight_log_probs if logprob >= thresholds[0]]
HardSolLogProbs(xs, threshold100) ==
    IF threshold100 = NaN THEN << >>
    ELSE SelectSeq(xs, LAMBDA x : x * 100 >= threshold100[1])

\* faulty variant: a goal solved with exactly the node budget is not counted
FinalGoalsProvenStrict(steps) == SelectSeq(steps, LAMBDA n : n < cfg.max_mcts_nodes)

\* [s for s in num_mcts_steps if s <= cfg.agent.max_mcts_nodes]
FinalGoalsProven(steps) == SelectSeq(steps, LAMBDA n : n <= cfg.max_mcts_nodes)

\* -mean_success_logprobs_final, with the mean -10 when nothing is proven
ValLoss(rs) ==
    LET lps == get_log_probs(rs)
    IN IF Len(lps) > 0 THEN <<-SumSeq(lps), Len(lps)>> ELSE <<10, 1>>

NumMctsSteps(rs) == [j \in DOMAIN rs |-> rs[j].iterations]

\* ------------------------------------------------- state of a process
RoundInit ==
    [examples |-> << >>, success_logprobs |-> << >>, ratio_proven |-> <<0, 1>>,
     mean_hard_sol_log_prob |-> <<0, 1>>, proven_conjectures_iteration |-> << >>,
     seen_hindsight_goals |-> {}, hindsight_log_probs |-> << >>,
     val_loss |-> <<0, 1>>, num_mcts_steps |-> << >>, final_goals_proven |-> << >>]

EmptyDisk ==
    [pt |-> << >>,            \* {i}.pt: index -> agent
     model_pt |-> NoFile,     \* model.pt
     model_info |-> NoFile,   \* model_info.yaml: its 'iteration'
     examples |-> [j \in 0..MaxIterations |-> 0],   \* examples_{j}.json: times written
     proven_conj |-> [j \in 0..MaxIterations |-> 0],   \* proven_conj_{j}.json: times written
     log |-> << >>]           \* log.jsonl

Terminal == {"done", "failed", "error", "crashed"}

\* a new process, before teacher_loop has run (lines 55-80)
ProcessStart ==
    /\ pc' = "start"
    /\ reason' = ""
    /\ agent' = << >>
    /\ model_info' = NoFile
    /\ start_iteration' = 0
    /\ i' = 0
    /\ started' = << >>
    /\ is_eval' = FALSE
    /\ agent_dump' = << >>
    /\ tasks' = << >>
    /\ results' = << >>
    /\ student_results' = << >>
    /\ student_result' = Unbound
    /\ round' = RoundInit
    /\ mle_log' = << >>
    /\ log_buffer' = << >>

\* leaving the `with open('log.jsonl', 'w')` block closes, and so flushes, the file
CloseLog(d) == [d EXCEPT !.log = d.log \o log_buffer]

\* ------------------------------------------------- resume (lines 79-104)
RECURSIVE FirstMissing(_, _)
FirstMissing(files, n) == IF n \in files THEN FirstMissing(files, n + 1) ELSE n

\* the per-iteration scan: i = 0; while os.path.exists(f'{i}.pt'): i += 1
ScanIndex == FirstMissing(DOMAIN disk.pt, 0)

\* the index whose file the per-iteration resume loads
LoadIndex == ScanIndex

\* faulty variant: the rolling resume repeats the stored iteration
RollingStartSameIteration(info) == info

\* faulty variant: the rolling resume starts over at iteration 0
RollingStartFromZero(info) == 0

\* start_iteration of the rolling resume
RollingStart(info) == info + 1

Startup ==
    /\ pc = "start"
    /\ UNCHANGED <<cfg, DISTRIBUTED, final_goals_formatted, outcomes, restarts, started,
                   is_eval, agent_dump, tasks, results, student_results, student_result,
                   round, mle_log, log_buffer>>
    /\ IF cfg.continue = FALSE
       THEN /\ pc' = "loop"
            /\ disk' = [disk EXCEPT !.log = << >>]
            /\ UNCHANGED <<agent, model_info, start_iteration, i, reason>>
       ELSE IF cfg.checkpoint_per_iteration
       THEN /\ start_iteration' = ScanIndex
            /\ UNCHANGED model_info
            /\ IF LoadIndex \in DOMAIN disk.pt
               THEN /\ agent' = disk.pt[LoadIndex]
                    /\ pc' = "loop"
                    /\ i' = ScanIndex
                    /\ disk' = [disk EXCEPT !.log = << >>]
                    /\ UNCHANGED reason
               ELSE /\ pc' = "failed"
                    /\ reason' = "FileNotFoundError"
                    /\ UNCHANGED <<agent, i, disk>>
       ELSE IF disk.model_pt = NoFile \/ disk.model_info = NoFile
       THEN /\ pc' = "failed"
            /\ reason' = "FileNotFoundError"
            /\ agent' = IF disk.model_pt = NoFile THEN agent ELSE disk.model_pt[1]
            /\ UNCHANGED <<model_info, start_iteration, i, disk>>
       ELSE /\ agent' = disk.model_pt[1]
            /\ model_info' = disk.model_info
            /\ start_iteration' = RollingStart(disk.model_info[1])
            /\ i' = RollingStart(disk.model_info[1])
            /\ pc' = "loop"
            /\ disk' = [disk EXCEPT !.log = << >>]
            /\ UNCHANGED reason

\* ------------------------------------------------- the loop (lines 106-121)
conjectures == final_goals_formatted

\* faulty variant: the dump of the previous dispatch is reused
DispatchStaleDump(a, eval) ==
    /\ agent_dump' = agent_dump
    /\ tasks' = << >>
    /\ results' = << >>
    /\ is_eval' = eval
    /\ pc' = "prove"

\* prove_conjectures, lines 239-242: dump the agent, no task yet
Dispatch(a, eval) ==
    /\ agent_dump' = a
    /\ tasks' = << >>
    /\ results' = << >>
    /\ is_eval' = eval
    /\ pc' = "prove"

IterBegin ==
    /\ pc = "loop"
    /\ i < cfg.total_iterations
    /\ started' = Append(started, i)
    /\ disk' = [disk EXCEPT !.log = disk.log \o log_buffer \o <<<<i, "posing">>>>]
    /\ log_buffer' = << >>
    /\ round' = RoundInit
    /\ student_results' = << >>
    /\ Dispatch(agent, FALSE)
    /\ UNCHANGED <<cfg, DISTRIBUTED, final_goals_formatted, outcomes, restarts, reason,
                   agent, model_info, start_iteration, i, student_result, mle_log>>

LoopExhausted ==
    /\ pc = "loop"
    /\ ~(i < cfg.total_iterations)
    /\ pc' = "done"
    /\ reason' = "exhausted"
    /\ disk' = CloseLog(disk)
    /\ log_buffer' = << >>
    /\ UNCHANGED <<cfg, DISTRIBUTED, final_goals_formatted, outcomes, restarts, agent,
                   model_info, start_iteration, i, started, is_eval, agent_dump, tasks,
                   results, student_results, student_result, round, mle_log>>

\* ------------------------------------------------- prove_conjectures (lines 236-264)
OutcomesOf(problem, eval) ==
    LET kind == IF eval THEN outcomes.eval ELSE outcomes.main
    IN CASE kind = "plain" -> IF eval THEN EvalResults(problem) ELSE PlainResults(problem)
         [] kind = "rich" -> RichResults(problem)
         [] kind = "solved" -> SolvedResults(problem)

Task(statement, status, result) ==
    [agent_dump |-> agent_dump, statement |-> statement, search_budget |-> is_eval,
     status |-> status, result |-> result]

\* submit_task: apply_async queues the job; run executes it before returning
Submit ==
    /\ pc = "prove"
    /\ Len(tasks) < Len(conjectures)
    /\ LET conjecture == conjectures[Len(tasks) + 1]
       IN IF DISTRIBUTED
          THEN tasks' = Append(tasks, Task(conjecture, "pending", ErrorResult(conjecture)))
          ELSE \E r \in OutcomesOf(conjecture, is_eval) :
                  tasks' = Append(tasks, Task(conjecture, "done", r))
    /\ UNCHANGED <<cfg, DISTRIBUTED, final_goals_formatted, outcomes, disk, restarts, pc,
                   reason, agent, model_info, start_iteration, i, started, is_eval,
                   agent_dump, results, student_results, student_result, round, mle_log,
                   log_buffer>>

\* a worker finishes a queued job, in any order
WorkerFinish ==
    /\ \E j \in DOMAIN tasks :
          /\ tasks[j].status = "pending"
          /\ \E r \in OutcomesOf(tasks[j].statement, tasks[j].search_budget) :
                tasks' = [tasks EXCEPT ![j].status = "done", ![j].result = r]
    /\ UNCHANGED <<cfg, DISTRIBUTED, final_goals_formatted, outcomes, disk, restarts, pc,
                   reason, agent, model_info, start_iteration, i, started, is_eval,
                   agent_dump, results, student_results, student_result, round, mle_log,
                   log_buffer>>

Uncollected == {j \in DOMAIN tasks : tasks[j].status # "collected"}

\* faulty variant: results are taken as the jobs complete
CollectChoicesAsCompleted == Uncollected

\* `for task in tasks`: the task the collection loop takes next
CollectChoices == {j \in Uncollected : \A k \in Uncollected : j <= k}

\* faulty variant: the return sits inside the collection loop
CollectFinishedAfterFirst == \E j \in DOMAIN tasks : tasks[j].status = "collected"

\* the collection loop has run to its end
CollectFinished == Uncollected = {}

\* what the loop keeps of a task's result
Kept(r) == IF r.error THEN << >> ELSE <<r>>

\* get_task_result: task.get() blocks until the job is done
Collect ==
    /\ pc = "prove"
    /\ Len(tasks) = Len(conjectures)
    /\ \E j \in CollectChoices :
          /\ tasks[j].status = "done"
          /\ tasks' = [tasks EXCEPT ![j].status = "collected"]
          /\ results' = results \o Kept(tasks[j].result)
    /\ UNCHANGED <<cfg, DISTRIBUTED, final_goals_formatted, outcomes, disk, restarts, pc,
                   reason, agent, model_info, start_iteration, i, started, is_eval,
                   agent_dump, student_results, student_result, round, mle_log,
                   log_buffer>>

\* jobs whose result was never fetched stay with the worker layer
Leftover == SelectSeq(tasks, LAMBDA t : t.status # "collected")

\* faulty variant: the mcts_only flag is never looked at
MctsOnlyBreakMissing == FALSE

\* `if cfg.get('mcts_only'): break`, lines 122-126
MctsOnlyBreak == cfg.mcts_only

\* return of the round's dispatch, and the mcts_only break (lines 121-126)
ProveReturn ==
    /\ pc = "prove"
    /\ ~is_eval
    /\ Len(tasks) = Len(conjectures)
    /\ CollectFinished
    /\ student_results' = results
    /\ results' = << >>
    /\ tasks' = Leftover
    /\ IF MctsOnlyBreak
       THEN /\ pc' = "done"
            /\ reason' = "mcts_only"
            /\ disk' = CloseLog(disk)
            /\ log_buffer' = << >>
       ELSE /\ pc' = "classify"
            /\ UNCHANGED <<reason, disk, log_buffer>>
    /\ UNCHANGED <<cfg, DISTRIBUTED, final_goals_formatted, outcomes, restarts, agent,
                   model_info, start_iteration, i, started, is_eval, agent_dump,
                   student_result, round, mle_log>>

\* ------------------------------------------------- classification (lines 130-178)
Raised(name) == [raised |-> name, round |-> round, student_result |-> student_result]

Classified(r, sr) == [raised |-> "", round |-> r, student_result |-> sr]

\* faulty variant: the ratio is taken over the results returned
RatioProvenOfReturned(success_logprobs, returned) == <<Len(success_logprobs), Len(returned)>>

\* len(success_logprobs) / len(conjectures)
RatioProven(success_logprobs, returned) == <<Len(success_logprobs), Len(conjectures)>>

\* The outcomes of lines 130-174.  np.percentile of an empty list raises
\* IndexError or yields nan, depending on the numpy release: both are kept.
ClassifyOutcomes ==
    LET success_logprobs == get_log_probs(student_results)
        all == student_results \o student_results_final
        sr == IF all = << >> THEN student_result ELSE Some(Last(all))
        primary ==
            [round EXCEPT
               !.success_logprobs = success_logprobs,
               !.ratio_proven = RatioProven(success_logprobs, student_results),
               !.mean_hard_sol_log_prob = MeanOrZero(success_logprobs),
               !.proven_conjectures_iteration = ProvenProblems(all),
               !.examples = ClassifyExamples(all)]
    IN IF Len(conjectures) = 0 THEN {Raised("ZeroDivisionError")}
       ELSE IF ~cfg.train_policy_on_hindsight_examples THEN {Classified(primary, sr)}
       ELSE IF sr = Unbound THEN {Raised("UnboundLocalError")}
       ELSE LET acc == HindsightLoop(HindsightSource(sr[1]), sr[1],
                          [seen |-> {}, examples |-> primary.examples, logprobs |-> << >>])
                with(threshold100) ==
                    [primary EXCEPT
                       !.examples = acc.examples,
                       !.seen_hindsight_goals = acc.seen,
                       !.hindsight_log_probs = acc.logprobs,
                       !.mean_hard_sol_log_prob =
                           MeanOrZero(HardSolLogProbs(acc.logprobs, threshold100))]
            IN IF acc.logprobs = << >>
               THEN IF difficulty_buckets = << >>
                    THEN {Raised("IndexError")}
                    ELSE {Raised("IndexError"), Classified(with(NaN), sr)}
               ELSE IF difficulty_buckets = << >>
               THEN {Raised("IndexError")}
               ELSE {Classified(with(Some(Percentile100(acc.logprobs, difficulty_buckets[1]))), sr)}

Classify ==
    /\ pc = "classify"
    /\ \E o \in ClassifyOutcomes :
          /\ round' = o.round
          /\ student_result' = o.student_result
          /\ IF o.raised # ""
             THEN /\ pc' = "error"
                  /\ reason' = o.raised
                  /\ disk' = CloseLog(disk)
                  /\ log_buffer' = << >>
             ELSE /\ pc' = "train"
                  /\ log_buffer' = Append(log_buffer, <<i, "training">>)
                  /\ UNCHANGED <<reason, disk>>
    /\ UNCHANGED <<cfg, DISTRIBUTED, final_goals_formatted, outcomes, restarts, agent,
                   model_info, start_iteration, i, started, is_eval, agent_dump, tasks,
                   results, student_results, mle_log>>

\* ------------------------------------------------- training and validation
\* faulty variant: the outcome of training is dropped
TrainSkipped(a, k) == a

\* agent.train(...) of iteration i (line 182)
Trained(a, k) == Append(a, k)

\* lines 182-184 and 224: train, then dispatch the validation round
Train ==
    /\ pc = "train"
    /\ agent' = Trained(agent, i)
    /\ Dispatch(agent', TRUE)
    /\ UNCHANGED <<cfg, DISTRIBUTED, final_goals_formatted, outcomes, disk, restarts,
                   reason, model_info, start_iteration, i, started, student_results,
                   student_result, round, mle_log, log_buffer>>

\* return of the validation dispatch, lines 225-233 and 186-204
Validate ==
    /\ pc = "prove"
    /\ is_eval
    /\ Len(tasks) = Len(conjectures)
    /\ CollectFinished
    /\ round' = [round EXCEPT
                   !.val_loss = ValLoss(results),
                   !.num_mcts_steps = NumMctsSteps(results),
                   !.final_goals_proven = FinalGoalsProven(NumMctsSteps(results))]
    /\ mle_log' = Append(mle_log, i)
    /\ results' = << >>
    /\ tasks' = Leftover
    /\ pc' = "save_examples"
    /\ UNCHANGED <<cfg, DISTRIBUTED, final_goals_formatted, outcomes, disk, restarts,
                   reason, agent, model_info, start_iteration, i, started, is_eval,
                   agent_dump, student_results, student_result, log_buffer>>

\* the arguments of mle_log.update (lines 197-201)
MetricsRecord ==
    [num_iterations |-> i, val_loss |-> round.val_loss,
     final_goals_proven |-> Len(round.final_goals_proven),
     ratio_proven |-> round.ratio_proven,
     mean_hard_sol_log_probs |-> round.mean_hard_sol_log_prob]

\* ------------------------------------------------- persistence (lines 206-214)
SaveExamples ==
    /\ pc = "save_examples"
    /\ disk' = [disk EXCEPT !.examples[i] = @ + 1]
    /\ pc' = "save_proven"
    /\ UNCHANGED <<cfg, DISTRIBUTED, final_goals_formatted, outcomes, restarts, reason,
                   agent, model_info, start_iteration, i, started, is_eval, agent_dump,
                   tasks, results, student_results, student_result, round, mle_log,
                   log_buffer>>

SaveProven ==
    /\ pc = "save_proven"
    /\ disk' = [disk EXCEPT !.proven_conj[i] = @ + 1]
    /\ pc' = "save_agent"
    /\ UNCHANGED <<cfg, DISTRIBUTED, final_goals_formatted, outcomes, restarts, reason,
                   agent, model_info, start_iteration, i, started, is_eval, agent_dump,
                   tasks, results, student_results, student_result, round, mle_log,
                   log_buffer>>

\* torch.save(agent, f"{i}.pt") or torch.save(agent, "model.pt")
SaveAgent ==
    /\ pc = "save_agent"
    /\ IF cfg.checkpoint_per_iteration
       THEN /\ disk' = [disk EXCEPT !.pt = (i :> agent) @@ disk.pt]
            /\ pc' = "early_exit"
       ELSE /\ disk' = [disk EXCEPT !.model_pt = Some(agent)]
            /\ pc' = "save_info"
    /\ UNCHANGED <<cfg, DISTRIBUTED, final_goals_formatted, outcomes, restarts, reason,
                   agent, model_info, start_iteration, i, started, is_eval, agent_dump,
                   tasks, results, student_results, student_result, round, mle_log,
                   log_buffer>>

\* model_info['iteration'] = i; yaml.dump(model_info, f)
SaveInfo ==
    /\ pc = "save_info"
    /\ model_info' = Some(i)
    /\ disk' = [disk EXCEPT !.model_info = Some(i)]
    /\ pc' = "early_exit"
    /\ UNCHANGED <<cfg, DISTRIBUTED, final_goals_formatted, outcomes, restarts, reason,
                   agent, start_iteration, i, started, is_eval, agent_dump, tasks,
                   results, student_results, student_result, round, mle_log, log_buffer>>

\* ------------------------------------------------- early exit (lines 216-220)
\* faulty variant: the solved goals are compared with the validation results returned
AllFinalGoalsProvenOfReturned == Len(round.final_goals_proven) = Len(round.num_mcts_steps)

\* len(final_goals_proven) == len(final_goals)
AllFinalGoalsProven == Len(round.final_goals_proven) = Len(final_goals)

EarlyExit ==
    /\ pc = "early_exit"
    /\ IF AllFinalGoalsProven /\ cfg.early_exit
       THEN /\ pc' = "done"
            /\ reason' = "converged"
            /\ disk' = CloseLog(disk)
            /\ log_buffer' = << >>
            /\ UNCHANGED i
       ELSE /\ pc' = "loop"
            /\ i' = i + 1
            /\ UNCHANGED <<reason, disk, log_buffer>>
    /\ UNCHANGED <<cfg, DISTRIBUTED, final_goals_formatted, outcomes, restarts, agent,
                   model_info, start_iteration, started, is_eval, agent_dump, tasks,
                   results, student_results, student_result, round, mle_log>>

\* ------------------------------------------------- the process's environment
\* the process is killed: its memory, its unflushed log records and its task
\* handles are lost, the run directory stays as it is
Crash ==
    /\ pc \notin Terminal
    /\ restarts < MaxRestarts
    /\ pc' = "crashed"
    /\ reason' = "killed"
    /\ agent' = << >>
    /\ model_info' = NoFile
    /\ start_iteration' = 0
    /\ i' = 0
    /\ started' = << >>
    /\ is_eval' = FALSE
    /\ agent_dump' = << >>
    /\ tasks' = << >>
    /\ results' = << >>
    /\ student_results' = << >>
    /\ student_result' = Unbound
    /\ round' = RoundInit
    /\ mle_log' = << >>
    /\ log_buffer' = << >>
    /\ UNCHANGED <<cfg, DISTRIBUTED, final_goals_formatted, outcomes, disk, restarts>>

\* the operator starts a fresh process with `continue` pointing at the run directory
Restart ==
    /\ pc \in Terminal
    /\ restarts < MaxRestarts
    /\ restarts' = restarts + 1
    /\ cfg' = [cfg EXCEPT !.continue = TRUE]
    /\ ProcessStart
    /\ UNCHANGED <<DISTRIBUTED, final_goals_formatted, outcomes, disk>>

\* ------------------------------------------------- specifications
Configs(iters, buckets) ==
    [checkpoint_per_iteration : BOOLEAN, continue : BOOLEAN, freeze_conjecturer : BOOLEAN,
     train_policy_on_hindsight_examples : BOOLEAN, mcts_only : BOOLEAN,
     early_exit : BOOLEAN, total_iterations : iters, max_mcts_nodes : {MaxNodes},
     difficulty_buckets : buckets]

InitWith(configs, goals, kinds, modes) ==
    /\ cfg \in configs
    /\ DISTRIBUTED \in modes
    /\ final_goals_formatted \in goals
    /\ outcomes \in kinds
    /\ disk = EmptyDisk
    /\ restarts = 0
    /\ pc = "start"
    /\ reason = ""
    /\ agent = << >>
    /\ model_info = NoFile
    /\ start_iteration = 0
    /\ i = 0
    /\ started = << >>
    /\ is_eval = FALSE
    /\ agent_dump = << >>
    /\ tasks = << >>
    /\ results = << >>
    /\ student_results = << >>
    /\ student_result = Unbound
    /\ round = RoundInit
    /\ mle_log = << >>
    /\ log_buffer = << >>

Run ==
    \/ Startup
    \/ IterBegin
    \/ LoopExhausted
    \/ Submit
    \/ WorkerFinish
    \/ Collect
    \/ ProveReturn
    \/ Classify
    \/ Train
    \/ Validate
    \/ SaveExamples
    \/ SaveProven
    \/ SaveAgent
    \/ SaveInfo
    \/ EarlyExit

\* One run directory over crashes and resumes: every checkpoint mode and exit
\* option, at most one goal, the worker reporting plain outcomes.
Init ==
    InitWith({c \in Configs(0..MaxIterations, {<<50>>}) : ~c.freeze_conjecturer},
             {gs \in GoalLists : Len(gs) <= 1},
             {[main |-> "plain", eval |-> "plain"]}, BOOLEAN)

Next == Run \/ Crash \/ Restart

Spec == Init /\ [][Next]_vars

\* One process from start to end: up to MaxGoals goals dispatched per round,
\* the worker reporting plain outcomes.
InitRun ==
    InitWith({c \in Configs(0..MaxIterations, {<<50>>}) : ~c.freeze_conjecturer},
             GoalLists, {[main |-> "plain", eval |-> "plain"]}, BOOLEAN)

SpecRun == InitRun /\ [][Run]_vars

\* One round of one process, the worker reporting extracted and hindsight
\* examples and the validation search always succeeding.
InitRound ==
    InitWith({c \in Configs({1}, {<<50>>, <<50, 0>>}) :
                  /\ ~c.continue
                  /\ ~c.checkpoint_per_iteration
                  /\ ~c.mcts_only
                  /\ ~c.early_exit},
             GoalLists, {[main |-> "rich", eval |-> "solved"]}, BOOLEAN)

SpecRound == InitRound /\ [][Run]_vars

\* ------------------------------------------------- properties
\* the results of the submitted tasks, in submission order
SubmittedResults == [j \in DOMAIN tasks |-> tasks[j].result]

AllAwaited ==
    /\ Len(tasks) = Len(conjectures)
    /\ \A j \in DOMAIN tasks : tasks[j].status = "collected"

\* C1: when prove_conjectures has awaited its N tasks, whatever the order in
\* which the jobs completed, the list it returns has at most N results and is
\* exactly the non-errored results in the order their conjectures were submitted.
C1_ReturnedInSubmissionOrder ==
    (pc = "prove" /\ AllAwaited) =>
        /\ Len(results) <= Len(conjectures)
        /\ \A j \in DOMAIN tasks : tasks[j].statement = conjectures[j]
        /\ results = SelectSeq(SubmittedResults, LAMBDA r : ~r.error)

C1_Witness ==
    /\ pc = "prove"
    /\ DISTRIBUTED
    /\ AllAwaited
    /\ Len(tasks) = 2
    /\ tasks[1].result.error
    /\ ~tasks[2].result.error
    /\ Len(results) = 1

\* a process that has resumed and not yet begun an iteration
JustResumed == pc = "loop" /\ cfg.continue /\ started = << >>

\* C2: rolling mode: when iteration k's checkpoint is on disk whole (model.pt
\* holds the agent trained in iteration k and model_info.yaml holds k), a
\* process resumed with `continue` holds that agent and begins at k + 1.
C2_RollingResume ==
    (/\ JustResumed
     /\ ~cfg.checkpoint_per_iteration
     /\ disk.model_pt # NoFile
     /\ disk.model_pt[1] # << >>
     /\ disk.model_info = Some(Last(disk.model_pt[1])))
    => /\ agent = disk.model_pt[1]
       /\ start_iteration = Last(disk.model_pt[1]) + 1
       /\ i = start_iteration

C2_Witness ==
    /\ JustResumed
    /\ ~cfg.checkpoint_per_iteration
    /\ restarts = 1
    /\ disk.model_info = Some(0)
    /\ agent = <<0>>
    /\ start_iteration = 1

MaxOf(S) == CHOOSE m \in S : \A n \in S : n <= m

\* C3: per-iteration mode: a process resumed with `continue` on a directory
\* holding 0.pt .. i.pt loads i.pt and starts its loop at iteration i.
C3_PerIterationResume ==
    (/\ cfg.continue
     /\ cfg.checkpoint_per_iteration
     /\ pc \in {"loop", "failed"}
     /\ started = << >>
     /\ DOMAIN disk.pt # {})
    => /\ pc = "loop"
       /\ start_iteration = MaxOf(DOMAIN disk.pt)
       /\ agent = disk.pt[MaxOf(DOMAIN disk.pt)]

\* C4: rolling mode: in every state of the run directory the iteration stored
\* in model_info.yaml is the iteration whose agent model.pt holds.
C4_InfoMatchesAgent ==
    ~cfg.checkpoint_per_iteration =>
        \/ disk.model_pt = NoFile /\ disk.model_info = NoFile
        \/ /\ disk.model_pt # NoFile
           /\ disk.model_pt[1] # << >>
           /\ disk.model_info = Some(Last(disk.model_pt[1]))

\* every held-out goal has a reported step count and it is within the node budget
AllWithinBudget ==
    /\ Len(round.num_mcts_steps) = Len(final_goals_formatted)
    /\ \A j \in DOMAIN round.num_mcts_steps :
          round.num_mcts_steps[j] <= cfg.max_mcts_nodes

\* C5: with early_exit set, when the validation round of iteration i reports a
\* step count within the node budget for every goal, the process leaves the
\* loop at the end of iteration i as converged, and once it has stopped it
\* begins no further iteration.
C5_EarlyExitStops ==
    [][/\ (pc = "early_exit" /\ cfg.early_exit /\ AllWithinBudget)
            => (pc' = "done" /\ reason' = "converged" /\ started' = started)
       /\ pc = "done" => (pc' = "done" /\ started' = started)]_vars

C5_Witness ==
    /\ pc = "done"
    /\ reason = "converged"
    /\ started = <<0>>
    /\ cfg.total_iterations = MaxIterations
    /\ MaxIterations > 1
    /\ AllWithinBudget

\* the number of held-out goals counted solved by the validation round
SolvedCount ==
    Cardinality({j \in DOMAIN round.num_mcts_steps :
                    round.num_mcts_steps[j] <= cfg.max_mcts_nodes})

\* C6: without mcts_only and without a fatal error, an iteration ends the run
\* as converged iff early_exit is set and every held-out goal is counted
\* solved in it, and otherwise the loop goes on to i + 1; the iterations begun
\* are start, start + 1, ... below total_iterations, each once, and the run ends
\* as exhausted when i has reached total_iterations, all of them having run.
C6_Termination ==
    [][~cfg.mcts_only =>
        /\ pc = "early_exit" =>
              IF cfg.early_exit /\ SolvedCount = Len(final_goals_formatted)
              THEN pc' = "done" /\ reason' = "converged"
              ELSE pc' = "loop" /\ i' = i + 1
        /\ (pc # "done" /\ pc' = "done") =>
              \/ reason' = "converged" /\ pc = "early_exit"
              \/ /\ reason' = "exhausted"
                 /\ pc = "loop"
                 /\ i >= cfg.total_iterations
                 /\ started = [j \in 1..Len(started) |-> start_iteration + j - 1]
                 /\ (start_iteration < cfg.total_iterations
                       => Len(started) = cfg.total_iterations - start_iteration)
        /\ (pc = "loop" /\ i >= cfg.total_iterations)
              => pc' = "done" /\ reason' = "exhausted"
        /\ \A j \in DOMAIN started' :
              started'[j] = start_iteration' + j - 1 /\ started'[j] < cfg.total_iterations
      ]_vars

C6_Witness ==
    /\ pc = "done"
    /\ reason = "exhausted"
    /\ ~cfg.mcts_only
    /\ cfg.early_exit
    /\ Len(final_goals_formatted) = 2
    /\ SolvedCount = 1
    /\ started = <<0, 1>>

\* C7: a round in which jobs reported errors and were dropped never ends the
\* process with an error.
C7_WorkerErrorNeverFatal ==
    ~(pc = "error" /\ Len(student_results) < Len(conjectures))

\* the hindsight examples of a batch in iteration order, and of those the
\* first with each goal
AllHindsight(rs) == Concat([j \in DOMAIN rs |-> rs[j].hindsight_examples])

RECURSIVE FirstByGoal(_, _)
FirstByGoal(hs, seen) ==
    IF hs = << >> THEN << >>
    ELSE IF Head(hs).goal \in seen THEN FirstByGoal(Tail(hs), seen)
    ELSE <<Head(hs)>> \o FirstByGoal(Tail(hs), seen \cup {Head(hs).goal})

\* C8: with hindsight training enabled, the threshold sample and the hindsight
\* strings of the example set are those of the first hindsight example of each
\* distinct goal met when iterating the batch's results in order, once each.
C8_HindsightDedup ==
    (pc = "train" /\ cfg.train_policy_on_hindsight_examples) =>
        LET firsts == FirstByGoal(AllHindsight(student_results), {})
        IN /\ round.hindsight_log_probs = [j \in DOMAIN firsts |-> firsts[j].logprob]
           /\ SelectSeq(round.examples, LAMBDA e : e[1] = "hs")
                = Concat([j \in DOMAIN firsts |-> firsts[j].examples])

SuccessCount ==
    Cardinality({j \in DOMAIN student_results : student_results[j].success})

Classified_pcs ==
    {"train", "prove", "save_examples", "save_proven", "save_agent", "save_info",
     "early_exit"}

\* C9: once a round is classified, ratio_proven is the number of returned
\* results with success = true over the number of conjectures submitted, a
\* dropped job counting in the denominator.
C9_RatioProven ==
    ((pc = "prove" /\ is_eval) \/ pc \in Classified_pcs \ {"prove"}) =>
        /\ RatEq(round.ratio_proven, <<SuccessCount, Len(final_goals_formatted)>>)
        /\ round.ratio_proven[2] = Len(final_goals_formatted)

C9_Witness ==
    /\ pc = "train"
    /\ Len(final_goals_formatted) = 2
    /\ Len(student_results) = 1
    /\ SuccessCount = 1
    /\ round.ratio_proven = <<1, 2>>

\* C10: outside a dispatch no submitted job is left unawaited, so training,
\* validation bookkeeping and persistence run with every job of the round
\* awaited, and every job in flight was submitted by the dispatch under way
\* (its snapshot and search budget are that dispatch's).
C10_RoundBarrier ==
    /\ pc # "prove" => tasks = << >>
    /\ \A j \in DOMAIN tasks :
          /\ tasks[j].agent_dump = agent_dump
          /\ tasks[j].search_budget = is_eval
          /\ agent_dump = agent
          /\ is_eval => (agent # << >> /\ Last(agent) = i)

C10_Witness ==
    /\ pc = "prove"
    /\ DISTRIBUTED
    /\ is_eval
    /\ i = 1
    /\ Len(tasks) = 2
    /\ tasks[1].status = "pending"
    /\ tasks[2].status = "done"

\* C11: every job of one dispatch carries the one dump taken before the first
\* submission, the dump stays the live agent until the last result is in, and
\* the agent changes only in the train step, which runs with no job outstanding.
C11_OneSnapshotPerDispatch ==
    [][/\ \A j \in DOMAIN tasks' : tasks'[j].agent_dump = agent_dump'
       /\ pc' = "prove" => agent_dump' = agent'
       /\ (pc = "prove" /\ pc' = "prove") => (agent_dump' = agent_dump /\ agent' = agent)
       /\ agent' # agent =>
             \/ pc = "start"
             \/ pc = "train" /\ tasks = << >> /\ agent' = Append(agent, i)]_vars

C11_Witness ==
    /\ pc = "prove"
    /\ DISTRIBUTED
    /\ is_eval
    /\ agent = <<0>>
    /\ Len(tasks) = 2
    /\ tasks[1].status = "collected"
    /\ tasks[2].status = "pending"
    /\ tasks[1].agent_dump = tasks[2].agent_dump

NothingPersisted == [disk EXCEPT !.log = << >>] = EmptyDisk

\* the mcts_only frame: no train call, no validation dispatch, no file but the
\* log, no metrics update
MctsOnlyFrame ==
    /\ agent = << >>
    /\ ~is_eval
    /\ pc \in {"start", "loop", "prove", "done", "failed"}
    /\ NothingPersisted
    /\ mle_log = << >>

\* C12 as stated: a finished mcts_only run has made exactly one dispatch, that of
\* the start iteration, and has trained, persisted and recorded nothing.
C12_ExactlyOneDispatch ==
    (cfg.mcts_only /\ pc = "done") =>
       /\ started = <<start_iteration>>
       /\ MctsOnlyFrame

\* C12 amended: an mcts_only run makes at most one dispatch, exactly one (of the
\* start iteration) when start_iteration < total_iterations and none otherwise,
\* and trains, persists and records nothing.
C12_MctsOnly ==
    cfg.mcts_only =>
       /\ MctsOnlyFrame
       /\ Len(started) <= 1
       /\ pc = "done" =>
             IF start_iteration < cfg.total_iterations
             THEN started = <<start_iteration>> /\ reason = "mcts_only"
             ELSE started = << >> /\ reason = "exhausted"

C12_Witness ==
    /\ cfg.mcts_only
    /\ pc = "done"
    /\ reason = "mcts_only"
    /\ started = <<0>>
    /\ Len(student_results) = 2
    /\ cfg.total_iterations = 2

IsPrefix(xs, ys) == Len(xs) <= Len(ys) /\ SubSeq(ys, 1, Len(xs)) = xs

RecordsOf(k, lg) == SelectSeq(lg, LAMBDA rec : rec[1] = k)

\* C13: log.jsonl only ever grows, across a resume too, and holds one record per
\* round, the one written before the round's dispatch.
C13_LogAppendOnly ==
    [][/\ IsPrefix(disk.log, disk.log')
       /\ \A k \in 0..MaxIterations : RecordsOf(k, disk.log') \in {<< >>, <<<<k, "posing">>>>}]_vars

\* C14: over iterations, crashes and resumes of one run directory,
\* examples_{j}.json and proven_conj_{j}.json are each written at most once.
C14_ArtifactsWrittenOnce ==
    \A j \in 0..MaxIterations : disk.examples[j] <= 1 /\ disk.proven_conj[j] <= 1

\* the files a resume of the selected mode needs: a checkpoint {j}.pt, or
\* model.pt together with model_info.yaml
ExpectedFileMissing ==
    IF cfg.checkpoint_per_iteration
    THEN DOMAIN disk.pt = {}
    ELSE disk.model_pt = NoFile \/ disk.model_info = NoFile

\* C15: with `continue`, the resume fails exactly when a file it needs is
\* missing, and a failed resume has run no round and has not started afresh.
C15_ResumeFailsIffMissing ==
    (cfg.continue /\ started = << >> /\ pc \in {"loop", "failed"}) =>
       /\ pc = "failed" <=> ExpectedFileMissing
       /\ pc = "failed" => (tasks = << >> /\ mle_log = << >> /\ ~is_eval)
       /\ pc = "loop" => start_iteration > 0

\* the round's metrics have gone to mle_log.update
MetricsEmitted ==
    /\ pc \in {"save_examples", "save_proven", "save_agent", "save_info", "early_exit"}
    /\ mle_log # << >>
    /\ Last(mle_log) = i

SuccessLogprobs ==
    LET succ == SelectSeq(student_results, LAMBDA r : r.success)
    IN [j \in DOMAIN succ |-> succ[j].logprob]

\* the emitted mean is 0 with no success and the mean of the successes' log-probs otherwise
MeanOfSuccesses ==
    LET m == MetricsRecord.mean_hard_sol_log_probs
    IN IF SuccessLogprobs = << >>
       THEN RatEq(m, <<0, 1>>)
       ELSE RatEq(m, <<SumSeq(SuccessLogprobs), Len(SuccessLogprobs)>>)

\* C16 as stated: in every configuration the emitted mean_hard_sol_log_prob is 0
\* when success_logprobs is empty and the mean of success_logprobs otherwise.
C16_MeanOfSuccessesAlways == MetricsEmitted => MeanOfSuccesses

\* C16 amended: the same, for the rounds run with hindsight training disabled.
C16_MeanOfSuccessesNoHindsight ==
    (MetricsEmitted /\ ~cfg.train_policy_on_hindsight_examples) => MeanOfSuccesses

C16_Witness ==
    /\ MetricsEmitted
    /\ ~cfg.train_policy_on_hindsight_examples
    /\ SuccessLogprobs = <<-1, -3>>
    /\ RatEq(MetricsRecord.mean_hard_sol_log_probs, <<-2, 1>>)

\* the labeled-conjecture example of the j-th returned result, unless frozen
LabelOf(j) ==
    IF cfg.freeze_conjecturer THEN << >>
    ELSE <<<<"conj", IF student_results[j].success THEN "hard" ELSE FAIL,
             student_results[j].problem, 0>>>>

LabelsThenExtracted ==
    Concat([j \in DOMAIN student_results |-> LabelOf(j)])
    \o Concat([j \in DOMAIN student_results |-> student_results[j].extracted_examples])

LabelAndExtractedPerResult ==
    Concat([j \in DOMAIN student_results |->
              LabelOf(j) \o student_results[j].extracted_examples])

\* what follows `front` in the examples is what the hindsight step appended:
\* nothing when hindsight training is off, else training strings of hindsight
\* examples and, unless frozen, 'hard' labels
FollowedByHindsight(front) ==
    /\ IsPrefix(front, round.examples)
    /\ LET rest == SubSeq(round.examples, Len(front) + 1, Len(round.examples))
       IN /\ ~cfg.train_policy_on_hindsight_examples => rest = << >>
          /\ \A k \in DOMAIN rest :
                \/ rest[k][1] = "hs"
                \/ ~cfg.freeze_conjecturer /\ rest[k][1] = "conj" /\ rest[k][2] = "hard"

\* C17 as stated: the examples handed to agent.train are all the labeled
\* conjectures, then all results' extracted examples in result order, then the
\* hindsight examples.
C17_LabelsThenExtractedThenHindsight ==
    pc = "train" => FollowedByHindsight(LabelsThenExtracted)

\* C17 amended: the examples handed to agent.train are, result by result in
\* result order, the result's labeled conjecture (unless frozen) followed by its
\* extracted examples, and after the last result what the hindsight step added.
C17_PerResultThenHindsight ==
    pc = "train" => FollowedByHindsight(LabelAndExtractedPerResult)

C17_Witness ==
    /\ pc = "train"
    /\ ~cfg.freeze_conjecturer
    /\ cfg.train_policy_on_hindsight_examples
    /\ Len(student_results) = 2
    /\ student_results[1].extracted_examples # << >>
    /\ Len(round.examples) = 6
    /\ round.examples[2][1] = "ext"
    /\ round.examples[3][1] = "conj"
    /\ round.examples[6][1] = "hs"

ExamplesOfKind(kind) == SelectSeq(round.examples, LAMBDA e : e[1] = kind)

\* C18: with freeze_conjecturer set, the examples handed to training hold no
\* conjecture-labeling example, and still hold every returned result's
\* extracted examples and the training strings of every hindsight example the
\* hindsight step collected.
C18_FrozenConjecturer ==
    (pc = "train" /\ cfg.freeze_conjecturer) =>
       /\ ExamplesOfKind("conj") = << >>
       /\ ExamplesOfKind("ext") =
             Concat([j \in DOMAIN student_results |-> student_results[j].extracted_examples])
       /\ Len(ExamplesOfKind("hs")) = Len(round.hindsight_log_probs)
       /\ \A g \in round.seen_hindsight_goals :
             \E k \in DOMAIN round.examples :
                round.examples[k][1] = "hs" /\ round.examples[k][2] = g

C18_Witness ==
    /\ pc = "train"
    /\ cfg.freeze_conjecturer
    /\ cfg.train_policy_on_hindsight_examples
    /\ Len(student_results) = 2
    /\ Len(ExamplesOfKind("ext")) = 2
    /\ round.seen_hindsight_goals = {"g1", "g2"}
    /\ Len(round.examples) = 4

\* the number of train calls of iteration k the agent has gone through
TrainCalls(a, k) == Len(SelectSeq(a, LAMBDA x : x = k))

\* the checkpoint of iteration k is on disk and holds the live agent
CheckpointHolds(k) ==
    IF cfg.checkpoint_per_iteration
    THEN k \in DOMAIN disk.pt /\ disk.pt[k] = agent
    ELSE disk.model_pt = Some(agent) /\ disk.model_info = Some(k)

NoCheckpointOf(k) ==
    IF cfg.checkpoint_per_iteration
    THEN k \notin DOMAIN disk.pt
    ELSE disk.model_info # Some(k)

\* how far iteration i has got: train calls made, metrics updates made, and
\* artifacts written, at each position of the loop body
Progress(trained, recorded, examples, proven) ==
    /\ TrainCalls(agent, i) = trained
    /\ TrainCalls(mle_log, i) = recorded
    /\ disk.examples[i] = examples
    /\ disk.proven_conj[i] = proven

\* C19: within an iteration the round's dispatch is fully collected before the
\* one train call, validation runs on the trained agent, the metrics update
\* follows, persistence comes after it, the checkpoint holds the agent that
\* iteration's train call produced, and early exit is decided after the checkpoint.
C19_StepOrder ==
    /\ (pc = "prove" /\ ~is_eval) => (Progress(0, 0, 0, 0) /\ NoCheckpointOf(i))
    /\ pc \in {"classify", "train"} =>
          (Progress(0, 0, 0, 0) /\ NoCheckpointOf(i) /\ tasks = << >>)
    /\ (pc = "prove" /\ is_eval) =>
          /\ Progress(1, 0, 0, 0) /\ NoCheckpointOf(i)
          /\ Last(agent) = i /\ agent_dump = agent
    /\ pc = "save_examples" => (Progress(1, 1, 0, 0) /\ NoCheckpointOf(i))
    /\ pc = "save_proven" => (Progress(1, 1, 1, 0) /\ NoCheckpointOf(i))
    /\ pc = "save_agent" => (Progress(1, 1, 1, 1) /\ NoCheckpointOf(i))
    /\ pc = "save_info" =>
          (Progress(1, 1, 1, 1) /\ NoCheckpointOf(i) /\ disk.model_pt = Some(agent))
    /\ (pc = "early_exit" \/ reason = "converged") =>
          (Progress(1, 1, 1, 1) /\ CheckpointHolds(i) /\ Last(agent) = i)

C19_Witness ==
    /\ pc = "early_exit"
    /\ i = 1
    /\ agent = <<0, 1>>
    /\ mle_log = <<0, 1>>
    /\ CheckpointHolds(1)
    /\ Len(student_results) = 2

\* C20: in rolling mode, over iterations, crashes and resumes, only the write
\* of model_info.yaml changes the stored iteration; the first write stores 0 and
\* every later write stores the value stored before plus one.
C20_InfoCountsUp ==
    [][IF pc = "save_info" /\ pc' = "early_exit"
       THEN disk.model_info' = IF disk.model_info = NoFile THEN Some(0)
                               ELSE Some(disk.model_info[1] + 1)
       ELSE disk.model_info' = disk.model_info]_vars

C20_Witness ==
    /\ restarts = 1
    /\ ~cfg.checkpoint_per_iteration
    /\ start_iteration = 1
    /\ i = 1
    /\ pc = "early_exit"
    /\ disk.model_info = Some(1)

====
